---- MODULE Spec2Model ----
(***************************************************************************)
(* jsxgettext: extraction of translatable strings (lib/jsxgettext.js) and  *)
(* the catalog merge helper (lib/po-helper.js).                            *)
(*                                                                         *)
(* Representation.  A JavaScript string is a sequence of one-character     *)
(* strings, so that split, join, trim, prefix tests and concatenation are  *)
(* computed, not assumed.  A JavaScript object is a function whose domain  *)
(* is the set of its own properties; a possibly-undefined value is a set   *)
(* that is empty (undefined) or a singleton.                               *)
(***************************************************************************)
EXTENDS Integers, Sequences, FiniteSets, TLC

VARIABLES
    options,      \* the caller's options object (parse mutates options.keyword)
    keyword0,     \* the keyword list the caller wrote into options, if any
    runs,         \* number of parse calls made with this options object
    pc,           \* "idle" (outside parse), "fold" (between files), "walk"
    loaded,       \* what readPoFile returned in this run, if it was called
    poJSON,       \* parse: the catalog object
    translations, \* parse: the running accumulator
    fileNo,       \* parse: number of source files taken from `sources`
    siteNo,       \* parse: number of call sites that yielded msgids so far
    astComments,  \* parseFile: comments kept by onComment
    fileTrans,    \* parseFile: its local `translations`
    visited,      \* parseFile: the call sites that yielded msgids, in order
    returned,     \* outcome of the last parse call: "none", "catalog", an error
    node,         \* input of getFunctionNameAndArguments
    resolved,     \* its result
    cmt,          \* a file with one comment and one translation call
    attached      \* the extracted comment of that call

runVars == <<options, keyword0, runs, pc, loaded, poJSON, translations, fileNo,
             siteNo, astComments, fileTrans, visited, returned>>
nodeVars == <<node, resolved>>
cmtVars == <<cmt, attached>>
vars == <<runVars, nodeVars, cmtVars>>

----------------------------------------------------------------------------
(* Bounds *)
MaxLen == 4        \* longest raw comment text
MaxLine == 2       \* source lines of a file
MaxFiles == 2      \* source files per run
MaxCalls == 3      \* call sites yielding msgids per run
MaxRuns == 2       \* parse calls on one options object
MaxArgs == 2       \* arguments of a call node (callee resolution)

----------------------------------------------------------------------------
(* Strings *)
WhiteSpace == {" ", "\n"}

None == {}
Some(x) == {x}
Val(o) == CHOOSE x \in o : TRUE
Get(obj, f) == IF f \in DOMAIN obj THEN {obj[f]} ELSE {}

StartsWith(s, p) == Len(s) >= Len(p) /\ SubSeq(s, 1, Len(p)) = p

RECURSIVE DropLeadingSpace(_)
DropLeadingSpace(s) ==
    IF s # <<>> /\ Head(s) \in WhiteSpace THEN DropLeadingSpace(Tail(s)) ELSE s

RECURSIVE DropTrailingSpace(_)
DropTrailingSpace(s) ==
    IF s # <<>> /\ s[Len(s)] \in WhiteSpace
    THEN DropTrailingSpace(SubSeq(s, 1, Len(s) - 1)) ELSE s

\* String.prototype.trim
Trim(s) == DropTrailingSpace(DropLeadingSpace(s))

\* s.split('\n'): always at least one piece
RECURSIVE Split(_)
Split(s) ==
    IF \A i \in 1..Len(s) : s[i] # "\n" THEN <<s>>
    ELSE LET i == CHOOSE j \in 1..Len(s) :
                     s[j] = "\n" /\ \A k \in 1..(j - 1) : s[k] # "\n"
         IN <<SubSeq(s, 1, i - 1)>> \o Split(SubSeq(s, i + 1, Len(s)))

\* lines.join('\n')
RECURSIVE Join(_)
Join(lines) ==
    IF lines = <<>> THEN <<>>
    ELSE IF Len(lines) = 1 THEN lines[1]
    ELSE lines[1] \o <<"\n">> \o Join(Tail(lines))

\* arr.filter(Boolean)
RECURSIVE FilterTruthy(_)
FilterTruthy(arr) ==
    IF arr = <<>> THEN <<>>
    ELSE (IF Head(arr) # <<>> THEN <<Head(arr)>> ELSE <<>>)
         \o FilterTruthy(Tail(arr))

----------------------------------------------------------------------------
(* po-helper *)

\* item && arr.indexOf(item) === i
deduplicateFilter(item, i, arr) ==
    item # <<>> /\ \A k \in 1..(i - 1) : arr[k] # item

RECURSIVE FilterFrom(_, _)
FilterFrom(arr, i) ==
    IF i > Len(arr) THEN <<>>
    ELSE (IF deduplicateFilter(arr[i], i, arr) THEN <<arr[i]>> ELSE <<>>)
         \o FilterFrom(arr, i + 1)

\* oldComment, newComment: possibly-undefined strings
mergeComment(oldComment, newComment) ==
    IF oldComment # None /\ newComment # None
    THEN Some(Join(FilterFrom(Split(Val(oldComment)) \o Split(Val(newComment)), 1)))
    ELSE IF oldComment # None /\ Val(oldComment) # <<>>
         THEN oldComment ELSE newComment

\* an object literal whose property is undefined is read back as undefined
Obj2(f1, v1, f2, v2) ==
    [f \in (IF v1 # None THEN {f1} ELSE {}) \cup (IF v2 # None THEN {f2} ELSE {})
        |-> IF f = f1 THEN Val(v1) ELSE Val(v2)]

mergeComments(oldComments, newComments) ==
    IF oldComments # None /\ newComments # None
    THEN Some(Obj2("reference",
                   mergeComment(Get(Val(oldComments), "reference"),
                                Get(Val(newComments), "reference")),
                   "extracted",
                   mergeComment(Get(Val(oldComments), "extracted"),
                                Get(Val(newComments), "extracted"))))
    ELSE IF oldComments # None THEN oldComments ELSE newComments

\* Object.assign({ comments: {} }, old, new), then comments overwritten
mergeTranslation(oldTranslation, newTranslation) ==
    LET assigned == newTranslation @@ oldTranslation
        merged == mergeComments(Get(oldTranslation, "comments"),
                                Get(newTranslation, "comments"))
    IN [f \in (DOMAIN assigned \ {"comments"})
              \cup (IF merged # None THEN {"comments"} ELSE {})
          |-> IF f = "comments" THEN Val(merged) ELSE assigned[f]]

\* JSON.parse(JSON.stringify(x)): on objects built of strings, arrays and
\* objects it yields an equal value; a property holding undefined is dropped,
\* which the representation above already reads as absent.
JSONCopy(x) == [k \in DOMAIN x |-> x[k]]

\* variant: the result is built from the new mapping only
mergeTranslations_newOnly(oldTranslations, newTranslations) ==
    LET copy == JSONCopy(oldTranslations)
    IN [msgId \in DOMAIN newTranslations |->
          IF msgId \in DOMAIN copy
          THEN mergeTranslation(copy[msgId], newTranslations[msgId])
          ELSE newTranslations[msgId]]

mergeTranslations(oldTranslations, newTranslations) ==
    LET copy == JSONCopy(oldTranslations)
    IN [msgId \in DOMAIN copy \cup DOMAIN newTranslations |->
          IF msgId \in DOMAIN newTranslations
          THEN IF msgId \in DOMAIN copy
               THEN mergeTranslation(copy[msgId], newTranslations[msgId])
               ELSE newTranslations[msgId]
          ELSE copy[msgId]]

\* the properties the helper module exports
poHelperExports == {"mergeTranslations", "readPoFile", "defaultHeaders"}

----------------------------------------------------------------------------
(* jsxgettext: syntax-tree nodes as acorn produces them *)

Identifier(name) == [type |-> "Identifier", name |-> name]
StringLiteral(v) == [type |-> "Literal", valueType |-> "string", value |-> v]
NumberLiteral == [type |-> "Literal", valueType |-> "number"]
Plus(l, r) == [type |-> "BinaryExpression", operator |-> "+", left |-> l, right |-> r]
Member(obj, prop) == [type |-> "MemberExpression", object |-> obj, property |-> prop]
ThisExpression == [type |-> "ThisExpression"]
FunctionExpression == [type |-> "FunctionExpression"]
Call(callee, args, line) ==
    [type |-> "CallExpression", callee |-> callee, arguments |-> args, line |-> line]
\* a node that carries a callee but no argument list
TaggedTemplate(callee, line) ==
    [type |-> "TaggedTemplateExpression", callee |-> callee, line |-> line]

isStringLiteral(n) == n.type = "Literal" /\ n.valueType = "string"

RECURSIVE isStrConcatExpr(_)
isStrConcatExpr(n) ==
    /\ n.type = "BinaryExpression"
    /\ n.operator = "+"
    /\ (isStringLiteral(n.left) \/ isStrConcatExpr(n.left))
    /\ (isStringLiteral(n.right) \/ isStrConcatExpr(n.right))

isString(n) == isStringLiteral(n) \/ isStrConcatExpr(n)

RECURSIVE extractStr(_)
extractStr(n) ==
    IF isStringLiteral(n) THEN n.value
    ELSE extractStr(n.left) \o extractStr(n.right)

\* comments.map(...).filter(Boolean).join('\n')
RECURSIVE MapCommentValues(_, _)
MapCommentValues(comments, line) ==
    IF comments = <<>> THEN <<>>
    ELSE (IF Head(comments).line = line \/ Head(comments).line + 1 = line
          THEN <<Head(comments).value>> ELSE <<>>)
         \o MapCommentValues(Tail(comments), line)

findComments(comments, line) == Join(FilterTruthy(MapCommentValues(comments, line)))

\* args.slice(1)
Slice1(args) == IF args = <<>> THEN <<>> ELSE Tail(args)

callName == <<"c", "a", "l", "l">>

\* variant: the context argument of a .call is not skipped
getFunctionNameAndArguments_keepsContext(n) ==
    IF "arguments" \notin DOMAIN n THEN None
    ELSE LET callee == n.callee
             funcName == Get(callee, "name")
         IN IF funcName # None
            THEN Some([funcName |-> funcName, args |-> n.arguments])
            ELSE IF callee.type # "MemberExpression" THEN None
            ELSE IF Get(callee.property, "name") = Some(callName)
            THEN LET prop == Get(callee.object, "property")
                     objName == Get(callee.object, "name")
                 IN Some([funcName |->
                             IF objName # None THEN objName
                             ELSE IF prop = None THEN None
                             ELSE IF Get(Val(prop), "name") # None
                                  THEN Get(Val(prop), "name")
                                  ELSE Get(Val(prop), "value"),
                          args |-> n.arguments])
            ELSE Some([funcName |-> Get(callee.property, "name"),
                       args |-> n.arguments])

\* false is None; otherwise [funcName, args], funcName possibly undefined
getFunctionNameAndArguments(n) ==
    IF "arguments" \notin DOMAIN n THEN None
    ELSE LET callee == n.callee
             funcName == Get(callee, "name")
         IN IF funcName # None
            THEN Some([funcName |-> funcName, args |-> n.arguments])
            ELSE IF callee.type # "MemberExpression" THEN None
            ELSE IF Get(callee.property, "name") = Some(callName)
            THEN LET prop == Get(callee.object, "property")
                     objName == Get(callee.object, "name")
                 IN Some([funcName |->
                             IF objName # None THEN objName
                             ELSE IF prop = None THEN None
                             ELSE IF Get(Val(prop), "name") # None
                                  THEN Get(Val(prop), "name")
                                  ELSE Get(Val(prop), "value"),
                          args |-> Slice1(n.arguments)])
            ELSE Some([funcName |-> Get(callee.property, "name"),
                       args |-> n.arguments])

Range(s) == {s[i] : i \in 1..Len(s)}

\* result: "false" (no match), "undefined" (skipped), "throw", or the msgids
maybeExtractMsgids(n, allowedNames, strict) ==
    LET a == getFunctionNameAndArguments(n)
    IN IF a = None THEN [kind |-> "false"]
       ELSE LET functionName == Val(a).funcName
                args == Val(a).args
            IN IF functionName = None \/ Val(functionName) \notin Range(allowedNames)
               THEN [kind |-> "false"]
               ELSE IF /\ Len(args) >= 1
                       /\ SubSeq(Val(functionName), 1, 1) = <<"n">>
                       /\ isString(args[1])
                       /\ Len(args) >= 2
                       /\ isString(args[2])
               THEN [kind |-> "msgids",
                     msgids |-> <<extractStr(args[1]), extractStr(args[2])>>]
               ELSE IF Len(args) >= 1 /\ isString(args[1])
               THEN [kind |-> "msgids", msgids |-> <<extractStr(args[1])>>]
               ELSE IF strict THEN [kind |-> "throw"]
               ELSE [kind |-> "undefined"]

\* the comment pattern built by parse: ^\s*TAG | ^\/
MatchesCommentRegex(text, tagName) ==
    \/ StartsWith(DropLeadingSpace(text), tagName)
    \/ (text # <<>> /\ Head(text) = "/")

\* variant: the leading marker character is not removed
CommentText_keepsMarker(text, tagName) ==
    IF MatchesCommentRegex(text, tagName) THEN Trim(text) ELSE <<>>

\* onComment: text.match(commentRegex) && text.replace(/^\//, '').trim()
CommentText(text, tagName) ==
    IF MatchesCommentRegex(text, tagName)
    THEN Trim(IF text # <<>> /\ Head(text) = "/" THEN Tail(text) ELSE text)
    ELSE <<>>

\* the comments onComment pushes for the raw comments of a file, in order
RECURSIVE onComment(_, _)
onComment(raw, tagName) ==
    IF raw = <<>> THEN <<>>
    ELSE (IF CommentText(Head(raw).text, tagName) # <<>>
          THEN <<[line |-> Head(raw).line,
                  value |-> CommentText(Head(raw).text, tagName)]>>
          ELSE <<>>)
         \o onComment(Tail(raw), tagName)

\* the record the CallExpression visitor builds for one call site
translationOf(filename, msgids, line, comments) ==
    LET base == [msgid |-> msgids[1],
                 msgstr |-> <<>>,
                 comments |-> [extracted |-> comments,
                               reference |-> filename \o <<":", ToString(line)>>]]
    IN IF Len(msgids) > 1
       THEN [msgid_plural |-> msgids[2], msgstr |-> << <<>>, <<>> >>] @@ base
       ELSE base

----------------------------------------------------------------------------
(* Inputs of a run *)

gettext == <<"g", "e", "t", "t", "e", "x", "t">>
ngettext == <<"n">> \o gettext
tName == <<"t">>
DefaultTag == <<"L", "1", "0", "n", ":">>

A == <<"a">>
B == <<"b">>
Z == <<"z">>

\* call expressions a source file may contain, here on a given line
CallNodes(line) ==
    { Call(Identifier(gettext), <<StringLiteral(A)>>, line),
      Call(Identifier(ngettext), <<StringLiteral(A), StringLiteral(B), Identifier(<<"n">>)>>, line),
      Call(Identifier(gettext), <<Plus(StringLiteral(A), StringLiteral(B))>>, line),
      Call(Identifier(gettext), <<Identifier(<<"x">>)>>, line),
      Call(Member(Identifier(tName), Identifier(callName)),
           <<ThisExpression, StringLiteral(A)>>, line),
      Call(Member(Identifier(<<"o">>), Identifier(<<"n">> \o tName)),
           <<StringLiteral(A), StringLiteral(B)>>, line) }

\* the sources considered have one translation call per line, from line 1 on
NextLine == Len(visited) + 1

TaggedText == <<" ">> \o DefaultTag \o <<" ", "x">>
PlainText == <<" ", "x">>

TaggedComment == [line |-> 1, text |-> TaggedText]
PlainComment == [line |-> 1, text |-> PlainText]

\* the comments of a source file: none, an untagged one, a tagged one, or the
\* same tagged note twice, all on the first line
CommentSets ==
    { <<>>, <<PlainComment>>, <<TaggedComment>>, <<TaggedComment, TaggedComment>> }

FileName(i) == <<"f", ToString(i)>>

OldDate == "2016-01-01 00:00+0000"
\* new Date() formatted; the clock is past every stored creation date
Now == "2026-11-05 12:00+0000"

defaultHeaders ==
    ("project-id-version" :> "PACKAGE VERSION")
    @@ ("language-team" :> "LANGUAGE <LL@li.org>")
    @@ ("pot-creation-date" :> Now)
    @@ ("po-revision-date" :> "YEAR-MO-DA HO:MI+ZONE")
    @@ ("language" :> "")
    @@ ("mime-version" :> "1.0")
    @@ ("content-type" :> "text/plain; charset=utf-8")
    @@ ("content-transfer-encoding" :> "8bit")

EmptyObject == <<>>

\* a catalog as gettext-parser reads it: header entry, a translated entry with
\* a reference, a translated entry without comments
ExistingEntries ==
    (<<>> :> [msgid |-> <<>>, msgstr |-> << <<"h">> >>])
    @@ (A :> [msgid |-> A, msgstr |-> << <<"A">> >>,
              comments |-> [reference |-> FileName(1) \o <<":", ToString(1)>>]])
    @@ (Z :> [msgid |-> Z, msgstr |-> << <<"Z">> >>])

ExistingCatalog ==
    [charset |-> "utf-8",
     headers |-> [defaultHeaders EXCEPT !["pot-creation-date"] = OldDate],
     translations |-> (<<>> :> ExistingEntries)]

\* what the catalog-format reader may hand back for the file on disk
DiskFiles ==
    { [readable |-> FALSE],
      [readable |-> TRUE, parsed |-> ExistingCatalog],
      [readable |-> TRUE, parsed |-> [charset |-> "utf-8", headers |-> EmptyObject]] }

\* try { parse(readFileSync(...)) } catch { return null }
readPoFile(file) == IF file.readable THEN Some(file.parsed) ELSE None

OptionSets ==
    { [joinExisting |-> j, sanity |-> s] @@ k :
        j \in BOOLEAN, s \in BOOLEAN,
        k \in {EmptyObject, [keyword |-> <<tName>>]} }

ErrNoMergeTranslation == "TypeError: poHelper.mergeTranslation is not a function"
ErrNoCompare == "TypeError: poHelper.compareTranslations is not a function"
ErrUnparseable == "Error: Could not parse translatable"
ErrInvalidPo == "Error: An error occurred while using the provided PO file"

tagNameOf(opts) ==
    IF "addComments" \in DOMAIN opts /\ opts.addComments # <<>>
    THEN opts.addComments ELSE DefaultTag

\* options.keyword.push('n' + options.keyword[index]) for every index the
\* list had when Object.keys was taken
RECURSIVE PushPlurals(_, _, _)
PushPlurals(list, i, n) ==
    IF i > n THEN list
    ELSE PushPlurals(Append(list, <<"n">> \o list[i]), i + 1, n)

keywordSetup(opts) ==
    IF "keyword" \in DOMAIN opts
    THEN PushPlurals(opts.keyword, 1, Len(opts.keyword))
    ELSE <<gettext, ngettext>>

\* structural inequality of two entry mappings
compareTranslations(a, b) == a # b

----------------------------------------------------------------------------
(* parse, one action per step of its control flow *)

freshCatalog ==
    [charset |-> "utf-8",
     headers |-> defaultHeaders,
     translations |-> (<<>> :> EmptyObject)]

IdleNode == TaggedTemplate(Identifier(tName), 1)
IdleCmt == [text |-> <<>>, line |-> 1, tag |-> DefaultTag]
Pending == [done |-> FALSE]

Init ==
    /\ options \in OptionSets
    /\ keyword0 = Get(options, "keyword")
    /\ runs = 0
    /\ pc = "idle"
    /\ loaded = None
    /\ poJSON = EmptyObject
    /\ translations = EmptyObject
    /\ fileNo = 0
    /\ siteNo = 0
    /\ astComments = <<>>
    /\ fileTrans = EmptyObject
    /\ visited = <<>>
    /\ returned = "none"
    /\ node = IdleNode
    /\ resolved = Pending
    /\ cmt = IdleCmt
    /\ attached = Pending

\* parse, lines 190-223: load or create the catalog, copy its entries, set up
\* the keywords
StartRun ==
    /\ pc = "idle"
    /\ runs < MaxRuns
    /\ runs' = runs + 1
    /\ \E file \in DiskFiles :
         /\ loaded' = IF options.joinExisting THEN readPoFile(file) ELSE None
         /\ poJSON' = IF loaded' # None THEN Val(loaded') ELSE freshCatalog
    /\ fileNo' = 0
    /\ siteNo' = 0
    /\ astComments' = <<>>
    /\ fileTrans' = EmptyObject
    /\ visited' = <<>>
    /\ IF "translations" \notin DOMAIN poJSON'
       THEN /\ returned' = ErrInvalidPo
            /\ pc' = "idle"
            /\ translations' = EmptyObject
            /\ options' = options
       ELSE /\ returned' = "none"
            /\ pc' = "fold"
            /\ translations' = JSONCopy(poJSON'.translations[<<>>])
            /\ options' = [keyword |-> keywordSetup(options)] @@ options
    /\ UNCHANGED <<keyword0, nodeVars, cmtVars>>

\* parseFile, lines 139-153: the source is parsed and its comments filtered
BeginFile ==
    /\ pc = "fold"
    /\ fileNo < MaxFiles
    /\ fileNo' = fileNo + 1
    /\ \E raw \in CommentSets : astComments' = onComment(raw, tagNameOf(options))
    /\ fileTrans' = EmptyObject
    /\ visited' = <<>>
    /\ pc' = "walk"
    /\ UNCHANGED <<options, keyword0, runs, loaded, poJSON, translations,
                   siteNo, returned, nodeVars, cmtVars>>

\* parseFile, lines 156-184: the CallExpression visitor on one node
VisitCall(n) ==
    /\ pc = "walk"
    /\ LET r == maybeExtractMsgids(n, options.keyword, options.sanity)
           t == translationOf(FileName(fileNo), r.msgids, n.line,
                              findComments(astComments, n.line))
       IN CASE r.kind = "throw" ->
                 /\ returned' = ErrUnparseable
                 /\ pc' = "idle"
                 /\ UNCHANGED <<fileTrans, visited, siteNo>>
            [] r.kind \in {"false", "undefined"} ->
                 UNCHANGED <<returned, pc, fileTrans, visited, siteNo>>
            [] r.kind = "msgids" ->
                 /\ siteNo < MaxCalls
                 /\ siteNo' = siteNo + 1
                 /\ visited' = Append(visited, [msgid |-> r.msgids[1], line |-> n.line])
                 /\ IF r.msgids[1] \in DOMAIN fileTrans
                    THEN IF "mergeTranslation" \in poHelperExports
                         THEN /\ fileTrans' = [fileTrans EXCEPT ![r.msgids[1]] =
                                                  mergeTranslation(@, t)]
                              /\ UNCHANGED <<returned, pc>>
                         ELSE /\ returned' = ErrNoMergeTranslation
                              /\ pc' = "idle"
                              /\ UNCHANGED fileTrans
                    ELSE /\ fileTrans' = (r.msgids[1] :> t) @@ fileTrans
                         /\ UNCHANGED <<returned, pc>>
    /\ UNCHANGED <<options, keyword0, runs, loaded, poJSON, translations,
                   fileNo, astComments, nodeVars, cmtVars>>

\* parse, lines 226-227: parseFile returned (its locals are gone), its result
\* is merged
EndFile ==
    /\ pc = "walk"
    /\ translations' = mergeTranslations(translations, fileTrans)
    /\ pc' = "fold"
    /\ astComments' = <<>>
    /\ fileTrans' = EmptyObject
    /\ visited' = <<>>
    /\ UNCHANGED <<options, keyword0, runs, loaded, poJSON, fileNo, siteNo,
                   returned, nodeVars, cmtVars>>

\* parse, lines 230-236: no source file is left
Finish ==
    /\ pc = "fold"
    /\ pc' = "idle"
    /\ IF options.joinExisting /\ "compareTranslations" \notin poHelperExports
       THEN /\ returned' = ErrNoCompare
            /\ UNCHANGED poJSON
       ELSE /\ returned' = "catalog"
            /\ poJSON' =
                 [poJSON EXCEPT
                    !.headers = IF options.joinExisting
                                   /\ compareTranslations(translations,
                                                          poJSON.translations[<<>>])
                                THEN [@ EXCEPT !["pot-creation-date"] = Now]
                                ELSE @,
                    !.translations = [@ EXCEPT ![<<>>] = translations]]
    /\ UNCHANGED <<options, keyword0, runs, loaded, translations, fileNo,
                   siteNo, astComments, fileTrans, visited, nodeVars, cmtVars>>

Next ==
    \/ StartRun
    \/ BeginFile
    \/ \E n \in CallNodes(NextLine) : VisitCall(n)
    \/ EndFile
    \/ Finish

Spec == Init /\ [][Next]_vars

----------------------------------------------------------------------------
(* Callee resolution on its own: every call-shaped node up to the bounds *)

ArgNodes == {StringLiteral(A), Identifier(<<"x">>), NumberLiteral}
ArgLists == UNION { [1..k -> ArgNodes] : k \in 0..MaxArgs }

ObjectNodes ==
    { Identifier(<<"o">>),
      Member(Identifier(<<"o">>), Identifier(<<"u">>)),
      Member(Identifier(<<"o">>), StringLiteral(<<"u">>)),
      ThisExpression }

PropertyNodes == {Identifier(tName), Identifier(callName), StringLiteral(tName)}

CalleeNodes ==
    {Identifier(tName), Identifier(callName), FunctionExpression}
    \cup { Member(o, p) : o \in ObjectNodes, p \in PropertyNodes }

NodeShapes ==
    { Call(c, args, 1) : c \in CalleeNodes, args \in ArgLists }
    \cup { TaggedTemplate(c, 1) : c \in CalleeNodes }

RunIdle ==
    /\ options = [joinExisting |-> FALSE, sanity |-> FALSE]
    /\ keyword0 = None
    /\ runs = 0
    /\ pc = "idle"
    /\ loaded = None
    /\ poJSON = EmptyObject
    /\ translations = EmptyObject
    /\ fileNo = 0
    /\ siteNo = 0
    /\ astComments = <<>>
    /\ fileTrans = EmptyObject
    /\ visited = <<>>
    /\ returned = "none"

InitNode ==
    /\ RunIdle
    /\ node \in NodeShapes
    /\ resolved = Pending
    /\ cmt = IdleCmt
    /\ attached = Pending

Resolve ==
    /\ ~resolved.done
    /\ resolved' = [done |-> TRUE, result |-> getFunctionNameAndArguments(node)]
    /\ UNCHANGED <<node, runVars, cmtVars>>

NextNode == Resolve

SpecNode == InitNode /\ [][NextNode]_vars

----------------------------------------------------------------------------
(* Comment capture and attachment on its own: a file with one comment and  *)
(* one gettext("a") call                                                   *)

Alphabet == {"/", " ", "L", "x"}
ShortTag == <<"L">>
Texts == UNION { [1..k -> Alphabet] : k \in 0..MaxLen }

InitCmt ==
    /\ RunIdle
    /\ node = IdleNode
    /\ resolved = Pending
    /\ cmt \in [text : Texts, line : 1..(MaxLine + 1), callLine : 1..MaxLine,
                tag : {ShortTag}]
    /\ attached = Pending

\* parseFile on that file, with the pattern parse builds for addComments = tag
Attach ==
    /\ ~attached.done
    /\ LET kept == onComment(<<[line |-> cmt.line, text |-> cmt.text]>>,
                             tagNameOf([addComments |-> cmt.tag]))
           t == translationOf(FileName(1), <<A>>, cmt.callLine,
                              findComments(kept, cmt.callLine))
       IN attached' = [done |-> TRUE, value |-> t.comments.extracted]
    /\ UNCHANGED <<cmt, runVars, nodeVars>>

NextCmt == Attach

SpecCmt == InitCmt /\ [][NextCmt]_vars

----------------------------------------------------------------------------
(* Properties *)

\* the loaded catalog is usable: readPoFile returned one with translations
LoadedOk == loaded # None /\ "translations" \in DOMAIN Val(loaded)
OldEntries == Val(loaded).translations[<<>>]
InRun == pc \in {"fold", "walk"}
Translated(e) == \E i \in 1..Len(e.msgstr) : e.msgstr[i] # <<>>
Entries(m) == { m[k] : k \in DOMAIN m }
RefOf(i, line) == FileName(i) \o <<":", ToString(line)>>

\* C1: a per-file merge never changes the non-empty msgstr of an entry of the
\* old catalog whose msgid the file extracts again.
C1_MsgstrKept ==
    [][ (pc = "walk" /\ pc' = "fold" /\ LoadedOk) =>
          \A m \in DOMAIN fileTrans \cap DOMAIN OldEntries :
              Translated(OldEntries[m]) =>
                  /\ m \in DOMAIN translations'
                  /\ translations'[m].msgstr = OldEntries[m].msgstr ]_vars

\* C2: a run with joinExisting and a loaded catalog that gets through all its
\* files returns the catalog, with the loaded creation date if the entries are
\* equal to the loaded ones and the current time otherwise.
C2_TimestampStable ==
    (/\ pc = "idle"
     /\ options.joinExisting
     /\ LoadedOk
     /\ returned \in {"catalog", ErrNoCompare})
    => /\ returned = "catalog"
       /\ poJSON.headers["pot-creation-date"] =
              IF translations = OldEntries THEN OldDate ELSE Now

\* C3: a run with joinExisting whose catalog file cannot be read returns a
\* fresh catalog holding the extracted entries; no error reaches the caller.
C3_LoadFailureFallsBack ==
    (/\ pc = "idle"
     /\ runs > 0
     /\ options.joinExisting
     /\ loaded = None
     /\ returned \in {"catalog", ErrNoCompare})
    => /\ returned = "catalog"
       /\ poJSON.charset = "utf-8"
       /\ poJSON.headers = defaultHeaders
       /\ poJSON.translations[<<>>] = translations

\* C4: a per-file merge keeps every msgid of the accumulator and leaves the
\* entries the file does not extract unchanged; the msgids of the loaded
\* catalog stay present throughout the run and in the returned catalog.
C4_KeysNeverShrink ==
    /\ [][ /\ (pc = "walk" /\ pc' = "fold") =>
                \A m \in DOMAIN translations :
                    /\ m \in DOMAIN translations'
                    /\ (m \notin DOMAIN fileTrans => translations'[m] = translations[m])
           /\ (pc = "fold" /\ returned' = "catalog") =>
                /\ DOMAIN translations \subseteq DOMAIN poJSON'.translations[<<>>]
                /\ \A m \in DOMAIN translations :
                      m \notin DOMAIN fileTrans =>
                          poJSON'.translations[<<>>][m] = translations[m] ]_vars
    /\ [](InRun /\ LoadedOk => DOMAIN OldEntries \subseteq DOMAIN translations)

C4_Witness ==
    /\ pc = "fold"
    /\ fileNo = MaxFiles
    /\ LoadedOk
    /\ translations[Z] = OldEntries[Z]
    /\ translations[A] # OldEntries[A]
    /\ DOMAIN translations # DOMAIN OldEntries

\* C5: an entry without plural form has one msgstr, an entry with a plural
\* form has two, in every extraction result and in the catalog after merges.
C5_MsgstrShape ==
    \A e \in Entries(fileTrans) \cup Entries(translations) :
        IF "msgid_plural" \in DOMAIN e THEN Len(e.msgstr) = 2 ELSE Len(e.msgstr) = 1

\* C6: when one file has several call sites of one msgid, extraction does not
\* fail and the single entry carries the reference and the comments of every
\* such site.
C6_SitesAccumulate ==
    \A i, j \in DOMAIN visited :
        (i < j /\ visited[i].msgid = visited[j].msgid) =>
            /\ returned # ErrNoMergeTranslation
            /\ visited[i].msgid \in DOMAIN fileTrans
            /\ \A k \in {i, j} :
                 /\ RefOf(fileNo, visited[k].line) \in
                        Range(Split(fileTrans[visited[i].msgid].comments.reference))
                 /\ Range(FilterTruthy(Split(findComments(astComments, visited[k].line))))
                        \subseteq
                    Range(Split(fileTrans[visited[i].msgid].comments.extracted))

\* C7 (as stated): an unmatched comment is never attached; a comment starting
\* with the tag or with the doc-style marker, on the call's line or the line
\* before, is attached with the tag or marker stripped.
C7_Tagged(text, tag) ==
    \E k \in 0..Len(text) :
        /\ \A i \in 1..k : text[i] \in WhiteSpace
        /\ k + Len(tag) <= Len(text)
        /\ SubSeq(text, k + 1, k + Len(tag)) = tag
C7_AfterTag(text, tag) ==
    LET k == CHOOSE k \in 0..Len(text) :
                 /\ \A i \in 1..k : text[i] \in WhiteSpace
                 /\ k + Len(tag) <= Len(text)
                 /\ SubSeq(text, k + 1, k + Len(tag)) = tag
    IN SubSeq(text, k + Len(tag) + 1, Len(text))
C7_Doc(text) == Len(text) > 0 /\ text[1] = "/"
C7_Near == cmt.line = cmt.callLine \/ cmt.line + 1 = cmt.callLine

C7_TagStripped ==
    attached.done =>
        /\ (~C7_Tagged(cmt.text, cmt.tag) /\ ~C7_Doc(cmt.text)) => attached.value = <<>>
        /\ (C7_Near /\ C7_Tagged(cmt.text, cmt.tag)) =>
               attached.value = Trim(C7_AfterTag(cmt.text, cmt.tag))
        /\ (C7_Near /\ C7_Doc(cmt.text)) =>
               attached.value = Trim(SubSeq(cmt.text, 2, Len(cmt.text)))

\* C7 (amended): an unmatched comment is never attached; a comment starting
\* with the tag or with the doc-style marker, on the call's line or the line
\* before, is attached as its text with one leading marker character removed
\* and the surrounding whitespace trimmed: the tag itself is kept.
C7_TagKept ==
    attached.done =>
        /\ (~C7_Tagged(cmt.text, cmt.tag) /\ ~C7_Doc(cmt.text)) => attached.value = <<>>
        /\ (C7_Near /\ C7_Tagged(cmt.text, cmt.tag)) =>
               /\ attached.value = Trim(cmt.text)
               /\ SubSeq(attached.value, 1, Len(cmt.tag)) = cmt.tag
        /\ (C7_Near /\ C7_Doc(cmt.text)) =>
               attached.value = Trim(SubSeq(cmt.text, 2, Len(cmt.text)))

C7_Witness ==
    /\ attached.done
    /\ C7_Near
    /\ cmt.line + 1 = cmt.callLine
    /\ cmt.text = <<" ", "L", " ", "x">>
    /\ attached.value = <<"L", " ", "x">>

\* C8: merging the extraction result of a file twice into an empty catalog
\* gives the same entries as merging it once.
C8_Idempotent ==
    pc = "walk" =>
        mergeTranslations(mergeTranslations(EmptyObject, fileTrans), fileTrans)
            = mergeTranslations(EmptyObject, fileTrans)

\* C9: callee resolution: identifier -> its name, all arguments; a.b -> b, all
\* arguments; x.call -> the name of x (identifier or accessed property), the
\* arguments without the first; other callees and nodes without an argument
\* list -> none.
C9_IsId(n) == n.type = "Identifier"
C9_IsMember(n) == n.type = "MemberExpression"
C9_DropFirst(args) == [i \in 1..(Len(args) - 1) |-> args[i + 1]]
C9_Expect(name, args) ==
    /\ resolved.result # None
    /\ Val(resolved.result).funcName = {name}
    /\ Val(resolved.result).args = args

C9_CallSiteResolution ==
    resolved.done =>
        LET c == node.callee
        IN IF "arguments" \notin DOMAIN node THEN resolved.result = None
           ELSE /\ C9_IsId(c) => C9_Expect(c.name, node.arguments)
                /\ (C9_IsMember(c) /\ C9_IsId(c.property) /\ c.property.name # callName)
                      => C9_Expect(c.property.name, node.arguments)
                /\ (C9_IsMember(c) /\ C9_IsId(c.property) /\ c.property.name = callName
                      /\ C9_IsId(c.object))
                      => C9_Expect(c.object.name, C9_DropFirst(node.arguments))
                /\ (C9_IsMember(c) /\ C9_IsId(c.property) /\ c.property.name = callName
                      /\ C9_IsMember(c.object) /\ C9_IsId(c.object.property))
                      => C9_Expect(c.object.property.name, C9_DropFirst(node.arguments))
                /\ (~C9_IsId(c) /\ ~C9_IsMember(c)) => resolved.result = None

C9_Witness ==
    /\ resolved.done
    /\ "arguments" \in DOMAIN node
    /\ node.callee = Member(Identifier(<<"o">>), Identifier(callName))
    /\ node.arguments = <<Identifier(<<"x">>), StringLiteral(A)>>
    /\ resolved.result = {[funcName |-> {<<"o">>}, args |-> <<StringLiteral(A)>>]}

\* C10: in every run on one options object with an explicit keyword list K the
\* recognized names are K and the "n"-prefixed alias of each member of K.
C10_KeywordsStable ==
    (keyword0 # None /\ InRun) =>
        Range(options.keyword) =
            Range(Val(keyword0)) \cup { <<"n">> \o k : k \in Range(Val(keyword0)) }

====
